---- MODULE Spec2Model ----
(***************************************************************************)
(* pytumblr typed response decoder (src/pytumblr/types.py, npf.py).        *)
(*                                                                         *)
(* A response is decoded by calling a dataclass with the raw mapping as    *)
(* keyword arguments.  The model follows what the interpreter does for     *)
(* such a call, one constructor frame per call:                            *)
(*   type.__call__  ->  Cls.__new__ (the family resolver where a base      *)
(*   class defines one, object.__new__ otherwise)  ->  the generated       *)
(*   __init__ (field binding, defaults)  ->  __post_init__ (nested         *)
(*   decoding)  ->  return.                                                *)
(* An exception raised anywhere unwinds every frame: no decoder catches.   *)
(***************************************************************************)
EXTENDS Integers, Sequences, FiniteSets, TLC

(***************************************************************************)
(* Values.  Every value carries its kind in k and its payload in a field   *)
(* of its own, so that values of different kinds are never compared on a   *)
(* payload.  A Python str is either an opaque text (S) or, where the code  *)
(* scans it (dates), its sequence of characters (Chars).                   *)
(***************************************************************************)
Null == [k |-> "null"]

S(s) == [k |-> "str", s |-> s]

Chars(c) == [k |-> "chars", c |-> c]

I(n) == [k |-> "int", i |-> n]

B(b) == [k |-> "bool", b |-> b]

L(l) == [k |-> "list", l |-> l]

M(m) == [k |-> "map", m |-> m]

Obj(cls, f) == [k |-> "obj", cls |-> cls, f |-> f]

Tuple(t) == [k |-> "tuple", t |-> t]

EmptyMap == [key \in {} |-> Null]

IsMap(v) == v.k = "map"

IsList(v) == v.k = "list"

IsObj(v) == v.k = "obj"

(***************************************************************************)
(* Bounds.                                                                 *)
(***************************************************************************)
\* The interpreter's recursion limit, counted in constructor frames.
RecursionLimit == 8

\* Post ids run over 1..MaxId.
MaxId == 2

(***************************************************************************)
(* Dataclass declarations.  A field is required, or has a literal default, *)
(* or a default_factory; init = FALSE is field(init=False).                *)
(***************************************************************************)
Req(n) == [name |-> n, kind |-> "req", dv |-> Null, init |-> TRUE]

Opt(n, v) == [name |-> n, kind |-> "val", dv |-> v, init |-> TRUE]

\* default_factory=list / dict: the factory is callable and returns v
Factory(n, v) == [name |-> n, kind |-> "factory", dv |-> v, init |-> TRUE]

\* default_factory=[]: the "factory" is a list object, which is not callable
BadFactory(n) == [name |-> n, kind |-> "badfactory", dv |-> Null, init |-> TRUE]

NoInit(n, v) == [name |-> n, kind |-> "val", dv |-> v, init |-> FALSE]

(***************************************************************************)
(* __post_init__ bodies are sequences of statements:                       *)
(*   One(f, C)     self.f = C called on **self.f                           *)
(*   Each(f, C)    self.f = [C called on **x, for x in self.f]             *)
(*   Pos(f, C)     self.f = C called on self.f as a positional argument    *)
(*   Date(f)       self.f = parse_date(self.f)                             *)
(***************************************************************************)
One(f, c) == [op |-> "one", field |-> f, cls |-> c]

Each(f, c) == [op |-> "each", field |-> f, cls |-> c]

Pos(f, c) == [op |-> "pos", field |-> f, cls |-> c]

Date(f) == [op |-> "date", field |-> f, cls |-> ""]

(***************************************************************************)
(* A class statement: its base, whether @dataclass decorates it and with   *)
(* which eq flag, the fields of its body, and which special methods its    *)
(* body defines itself.                                                    *)
(***************************************************************************)
Dataclass(base, fields) ==
    [base |-> base, dataclass |-> TRUE, eq |-> TRUE, fields |-> fields,
     own_new |-> FALSE, own_eq |-> FALSE, own_hash |-> FALSE,
     own_post_init |-> FALSE, post_init |-> <<>>]

PlainClass(base) ==
    [base |-> base, dataclass |-> FALSE, eq |-> FALSE, fields |-> <<>>,
     own_new |-> FALSE, own_eq |-> FALSE, own_hash |-> FALSE,
     own_post_init |-> FALSE, post_init |-> <<>>]

WithPostInit(c, body) == [c EXCEPT !.own_post_init = TRUE, !.post_init = body]

WithNew(c) == [c EXCEPT !.own_new = TRUE]

(***************************************************************************)
(* types.py                                                                *)
(***************************************************************************)
BaseBlog ==
    Dataclass("object",
        << Req("name"), Req("updated"), Req("title"), Req("description") >>)

BlogInfo ==
    Dataclass("BaseBlog",
        << Req("posts"), Req("ask"), Req("ask_anon"), Req("likes"),
           Req("is_blocked_from_primary") >>)

Avatar == Dataclass("object", << Req("avatar_url") >>)

Post ==
    [ WithPostInit(
        WithNew(Dataclass("object",
            << Req("id"), Req("type"), Req("blog_name"), Req("post_url"),
               Req("timestamp"), Req("date"), Req("format"), Req("reblog_key"),
               Req("tags"), Req("total_posts"),
               Opt("blog", Null),
               Opt("bookmarks", Null), Opt("mobile", Null),
               Opt("source_url", Null), Opt("source_title", Null),
               Opt("liked", Null), Opt("state", Null),
               Opt("is_blocks_post_format", Null) >>)),
        << Date("date"), One("blog", "BlogInfo") >>)
      EXCEPT !.own_eq = TRUE, !.own_hash = TRUE ]

DashboardPost == Dataclass("Post", << Opt("blog", Null) >>)

Submission ==
    Dataclass("Post",
        << Opt("slug", Null), Opt("short_url", Null), Opt("post_author", Null),
           Opt("is_submission", B(TRUE)), Opt("anonymous_name", Null),
           Opt("anonymous_email", Null), Opt("state", S("submission")) >>)

LegacyTextPost == Dataclass("Post", << Opt("title", Null), Opt("body", Null) >>)

ImageSize == Dataclass("object", << Req("width"), Req("height"), Req("url") >>)

Photo ==
    WithPostInit(Dataclass("object", << Req("caption"), Req("alt_sizes") >>),
                 << Each("alt_sizes", "ImageSize") >>)

VerbosePhoto ==
    WithPostInit(
        Dataclass("Photo",
            << Req("original_size"), Req("width"), Req("height"), Req("url") >>),
        << One("original_size", "ImageSize") >>)

LegacyPhotoPost ==
    WithPostInit(
        Dataclass("Post",
            << Opt("caption", Null), Opt("width", Null), Opt("height", Null),
               Factory("photos", L(<<>>)) >>),
        << Each("photos", "Photo") >>)

LegacyQuotePost == Dataclass("Post", << Opt("text", Null), Opt("source", Null) >>)

LegacyLinkPost ==
    WithPostInit(
        Dataclass("Post",
            << Opt("title", Null), Opt("description", Null), Opt("url", Null),
               Opt("author", Null), Opt("excerpt", Null), Opt("publisher", Null),
               Factory("photos", L(<<>>)) >>),
        << Each("photos", "VerbosePhoto") >>)

ChatLine == Dataclass("object", << Req("name"), Req("label"), Req("phrase") >>)

LegacyChatPost ==
    WithPostInit(
        Dataclass("Post",
            << Opt("title", Null), Opt("body", Null),
               Factory("dialogue", L(<<>>)) >>),
        << Each("dialogue", "ChatLine") >>)

LegacyAudioPost ==
    Dataclass("Post",
        << Opt("caption", Null), Opt("player", Null), Opt("plays", Null),
           Opt("album_art", Null), Opt("artist", Null), Opt("album", Null),
           Opt("track_name", Null), Opt("track_number", Null),
           Opt("year", Null) >>)

LegacyVideoPost ==
    Dataclass("Post", << Opt("caption", Null), BadFactory("player") >>)

LegacyAnswerPost ==
    Dataclass("Post",
        << Opt("asking_name", Null), Opt("asking_url", Null),
           Opt("question", Null), Opt("answer", Null) >>)

Likes ==
    WithPostInit(Dataclass("object", << Req("liked_posts"), Req("liked_count") >>),
                 << Each("liked_posts", "Post") >>)

Following ==
    WithPostInit(Dataclass("object", << Req("blogs"), Req("total_blogs") >>),
                 << Each("blogs", "BlogInfo") >>)

Dashboard ==
    WithPostInit(Dataclass("object", << Req("posts") >>),
                 << Each("posts", "DashboardPost") >>)

Posts ==
    WithPostInit(Dataclass("object", << Req("posts") >>),
                 << Each("posts", "Post") >>)

BlogPosts ==
    WithPostInit(Dataclass("Posts", << Req("blog") >>),
                 << One("blog", "BlogInfo") >>)

\* a type -> class dict
POST_CLASSES ==
    [photo |-> "LegacyPhotoPost", quote |-> "LegacyQuotePost",
     link |-> "LegacyLinkPost", chat |-> "LegacyChatPost",
     audio |-> "LegacyAudioPost", video |-> "LegacyVideoPost",
     answer |-> "LegacyAnswerPost"]

(***************************************************************************)
(* npf.py                                                                  *)
(***************************************************************************)
\* A blog which is only guaranteed to have a uuid
ShortBlogInfo ==
    Dataclass("BlogInfo",
        << Req("uuid"),
           Opt("title", Null), Opt("posts", Null), Opt("name", Null),
           Opt("updated", Null), Opt("description", Null), Opt("ask", Null),
           Opt("ask_anon", Null), Opt("likes", Null),
           Opt("is_blocked_from_primary", Null) >>)

\* A Post which is only guaranteed to have an id; @dataclass(eq=False)
PostInfo ==
    [ Dataclass("Post",
        << Opt("type", Null), Opt("blog_name", Null), Opt("post_url", Null),
           Opt("timestamp", Null), Opt("date", Null), Opt("format", Null),
           Opt("reblog_key", Null), Opt("tags", Null),
           Opt("total_posts", Null) >>)
      EXCEPT !.eq = FALSE ]

NeueObject == Dataclass("object", << Req("type") >>)

ContentFormat ==
    WithNew(Dataclass("NeueObject", << Req("start"), Req("end") >>))

LinkFormat == Dataclass("ContentFormat", << Req("url") >>)

MentionFormat ==
    WithPostInit(Dataclass("ContentFormat", << Req("blog") >>),
                 << One("blog", "ShortBlogInfo") >>)

ColorFormat == Dataclass("ContentFormat", << Req("hex") >>)

FORMAT_CLASSES ==
    [color |-> "ColorFormat", link |-> "LinkFormat", content |-> "ContentFormat"]

\* not decorated: the class inherits NeueObject's fields and __init__
ContentBlock == WithNew(PlainClass("NeueObject"))

TextBlock == Dataclass("ContentBlock", << Req("text"), Opt("subtype", S("")) >>)

Media ==
    Dataclass("NeueObject",
        << Req("url"), Opt("width", I(0)), Opt("height", I(0)),
           Opt("original_dimensions_missing", Null) >>)

Attribution == WithNew(PlainClass("NeueObject"))

PostAttribution ==
    WithPostInit(
        Dataclass("Attribution", << Req("url"), Req("post"), Req("blog") >>),
        << One("post", "PostInfo"), One("blog", "ShortBlogInfo") >>)

BlogAttribution ==
    WithPostInit(Dataclass("Attribution", << Req("blog") >>),
                 << One("blog", "ShortBlogInfo") >>)

LinkAttribution == Dataclass("Attribution", << Req("url") >>)

AppAttribution ==
    WithPostInit(
        Dataclass("Attribution",
            << Req("url"), Opt("app_name", Null), Opt("display_text", Null),
               Opt("logo", Null) >>),
        << One("logo", "Media") >>)

ATTRIBUTION_CLASSES ==
    [link |-> "LinkAttribution", blog |-> "BlogAttribution",
     app |-> "AppAttribution", post |-> "PostAttribution"]

ImageBlock ==
    WithPostInit(
        Dataclass("ContentBlock",
            << Req("media"), Factory("colors", M(EmptyMap)),
               Opt("feedback_token", S("")), Opt("poster", Null),
               Opt("attribution", Null) >>),
        << Each("media", "Media"), One("poster", "Media"),
           Pos("attribution", "Attribution") >>)

LinkBlock ==
    WithPostInit(
        Dataclass("ContentBlock",
            << Req("url"), Opt("title", Null), Opt("description", Null),
               Opt("author", Null), Opt("site_name", Null),
               Opt("display_url", Null), Opt("poster", Null) >>),
        << One("poster", "Media") >>)

\* An embedded media block
MediaBlock ==
    WithPostInit(
        Dataclass("ContentBlock",
            << Req("provider"), Opt("url", Null), Opt("media", Null),
               Opt("poster", Null), Opt("embed_html", Null),
               Opt("embed_url", Null), Opt("metadata", Null),
               Opt("attribution", Null) >>),
        << Each("poster", "Media"), One("media", "Media"),
           One("attribution", "Attribution") >>)

AudioBlock ==
    Dataclass("MediaBlock",
        << Opt("title", Null), Opt("artist", Null), Opt("album", Null) >>)

VideoBlock == Dataclass("MediaBlock", << Opt("can_autoplay_on_cellular", Null) >>)

CONTENT_CLASSES ==
    [video |-> "VideoBlock", audio |-> "AudioBlock", media |-> "MediaBlock",
     text |-> "TextBlock", link |-> "LinkBlock"]

LayoutBlock == WithNew(PlainClass("NeueObject"))

Display ==
    WithPostInit(Dataclass("object", << Req("blocks"), Req("mode") >>),
                 << One("mode", "NeueObject") >>)

RowsLayout ==
    Dataclass("LayoutBlock",
        << Req("rows"), NoInit("type", S("rows")), Opt("display", Null) >>)

CondensedLayout ==
    Dataclass("LayoutBlock", << Req("blocks"), NoInit("type", S("condensed")) >>)

AskLayout ==
    WithPostInit(
        Dataclass("LayoutBlock",
            << Req("blocks"), Req("attribution"), Opt("blog", Null) >>),
        << One("attribution", "Attribution"), One("blog", "ShortBlogInfo") >>)

LAYOUT_CLASSES ==
    [rows |-> "RowsLayout", condensed |-> "CondensedLayout", ask |-> "AskLayout"]

BrokenBlog ==
    WithPostInit(Dataclass("object", << Req("name"), Req("avatar") >>),
                 << One("avatar", "Avatar") >>)

Trail ==
    WithPostInit(
        Dataclass("object",
            << Req("content"), Req("layout"), Req("broken_blog"),
               Opt("post", Null), Opt("blog", Null) >>),
        << Each("content", "ContentBlock"), Each("layout", "LayoutBlock"),
           One("broken_blog", "BrokenBlog"), One("post", "PostInfo"),
           One("blog", "ShortBlogInfo") >>)

NeuePostInfo == Dataclass("object", << Req("id") >>)

NeuePost ==
    WithPostInit(
        Dataclass("NeuePostInfo",
            << Req("tumblelog_uuid"), Req("content"), Req("layout"),
               Opt("parent_post_id", Null), Opt("parent_tumblelog_uuid", Null),
               Opt("reblog_key", Null), Opt("trail", Null) >>),
        << Each("content", "ContentBlock"), Each("layout", "LayoutBlock"),
           Each("trail", "Trail") >>)

(***************************************************************************)
(* request.py                                                              *)
(***************************************************************************)
TumblrError ==
    Dataclass("object",
        << Req("status"), Req("msg"), Opt("response", Null), Opt("errors", Null) >>)

(***************************************************************************)
(* The classes by name, as the module namespaces bind them.                *)
(***************************************************************************)
ClassTable ==
    [BaseBlog |-> BaseBlog, BlogInfo |-> BlogInfo, Avatar |-> Avatar,
     Post |-> Post, DashboardPost |-> DashboardPost, Submission |-> Submission,
     LegacyTextPost |-> LegacyTextPost, ImageSize |-> ImageSize,
     Photo |-> Photo, VerbosePhoto |-> VerbosePhoto,
     LegacyPhotoPost |-> LegacyPhotoPost, LegacyQuotePost |-> LegacyQuotePost,
     LegacyLinkPost |-> LegacyLinkPost, ChatLine |-> ChatLine,
     LegacyChatPost |-> LegacyChatPost, LegacyAudioPost |-> LegacyAudioPost,
     LegacyVideoPost |-> LegacyVideoPost, LegacyAnswerPost |-> LegacyAnswerPost,
     Likes |-> Likes, Following |-> Following, Dashboard |-> Dashboard,
     Posts |-> Posts, BlogPosts |-> BlogPosts,
     ShortBlogInfo |-> ShortBlogInfo, PostInfo |-> PostInfo,
     NeueObject |-> NeueObject, ContentFormat |-> ContentFormat,
     LinkFormat |-> LinkFormat, MentionFormat |-> MentionFormat,
     ColorFormat |-> ColorFormat, ContentBlock |-> ContentBlock,
     TextBlock |-> TextBlock, Media |-> Media, Attribution |-> Attribution,
     PostAttribution |-> PostAttribution, BlogAttribution |-> BlogAttribution,
     LinkAttribution |-> LinkAttribution, AppAttribution |-> AppAttribution,
     ImageBlock |-> ImageBlock, LinkBlock |-> LinkBlock,
     MediaBlock |-> MediaBlock, AudioBlock |-> AudioBlock,
     VideoBlock |-> VideoBlock, LayoutBlock |-> LayoutBlock,
     Display |-> Display, RowsLayout |-> RowsLayout,
     CondensedLayout |-> CondensedLayout, AskLayout |-> AskLayout,
     BrokenBlog |-> BrokenBlog, Trail |-> Trail,
     NeuePostInfo |-> NeuePostInfo, NeuePost |-> NeuePost,
     TumblrError |-> TumblrError]

Classes == DOMAIN ClassTable

(***************************************************************************)
(* Class semantics: inheritance, dataclass field collection, method        *)
(* resolution.  Every class here has a single base.                        *)
(***************************************************************************)
RECURSIVE IsSubclass(_, _)
IsSubclass(c, d) ==
    IF c = d THEN TRUE
    ELSE IF c = "object" THEN FALSE
    ELSE IsSubclass(ClassTable[c].base, d)

IsInstance(v, d) == IsObj(v) /\ IsSubclass(v.cls, d)

\* dataclasses: a redeclared field keeps its position, a new one is appended
RECURSIVE MergeFields(_, _)
MergeFields(base, own) ==
    IF Len(own) = 0 THEN base
    ELSE LET f == Head(own)
             pos == {i \in 1..Len(base) : base[i].name = f.name}
         IN  MergeFields(IF pos = {} THEN Append(base, f)
                         ELSE [base EXCEPT ![CHOOSE i \in pos : TRUE] = f],
                         Tail(own))

RECURSIVE Fields(_)
Fields(c) ==
    IF c = "object" THEN <<>>
    ELSE MergeFields(Fields(ClassTable[c].base), ClassTable[c].fields)

IsInitField(f) == f.init

InitParams(c) == SelectSeq(Fields(c), IsInitField)

\* the generated __init__ signature: "non-default argument follows default
\* argument" makes @dataclass raise TypeError inside the class statement
SignatureOK(c) ==
    LET ps == InitParams(c)
    IN  \A i, j \in 1..Len(ps) :
            (i < j /\ ps[i].kind # "req") => ps[j].kind # "req"

\* a class exists if its class statement, and its base's, completed
RECURSIVE ClassDefined(_)
ClassDefined(c) ==
    IF c = "object" THEN TRUE
    ELSE /\ ClassDefined(ClassTable[c].base)
         /\ (ClassTable[c].dataclass => SignatureOK(c))

\* the nearest class of the MRO whose body defines __new__
RECURSIVE NewOwner(_)
NewOwner(c) ==
    IF c = "object" THEN "object"
    ELSE IF ClassTable[c].own_new THEN c
    ELSE NewOwner(ClassTable[c].base)

\* the nearest class of the MRO whose body defines __post_init__
RECURSIVE PostInitOwner(_)
PostInitOwner(c) ==
    IF c = "object" THEN "object"
    ELSE IF ClassTable[c].own_post_init THEN c
    ELSE PostInitOwner(ClassTable[c].base)

PostInitBody(c) ==
    IF PostInitOwner(c) = "object" THEN <<>>
    ELSE ClassTable[PostInitOwner(c)].post_init

(***************************************************************************)
(* The fields whose annotation is a dataclass of these modules or a List   *)
(* of one, by the class that declares them.                                *)
(***************************************************************************)
types_ShapeFields ==
    [Post |-> {"blog"}, Photo |-> {"alt_sizes"},
     VerbosePhoto |-> {"original_size"}, LegacyPhotoPost |-> {"photos"},
     LegacyLinkPost |-> {"photos"}, LegacyChatPost |-> {"dialogue"},
     Likes |-> {"liked_posts"}, Following |-> {"blogs"},
     Dashboard |-> {"posts"}, Posts |-> {"posts"}, BlogPosts |-> {"blog"}]

npf_ShapeFields ==
    [MentionFormat |-> {"blog"}, PostAttribution |-> {"post", "blog"},
     BlogAttribution |-> {"blog"}, AppAttribution |-> {"logo"},
     ImageBlock |-> {"media", "poster", "attribution"},
     LinkBlock |-> {"poster"},
     MediaBlock |-> {"media", "poster", "attribution"},
     Display |-> {"mode"}, AskLayout |-> {"attribution", "blog"},
     BrokenBlog |-> {"avatar"},
     Trail |-> {"content", "layout", "broken_blog", "post", "blog"},
     NeuePost |-> {"content", "layout", "trail"}]

RECURSIVE ShapeFieldsOf(_)
ShapeFieldsOf(c) ==
    IF c = "object" THEN {}
    ELSE ShapeFieldsOf(ClassTable[c].base)
         \cup (IF c \in DOMAIN types_ShapeFields THEN types_ShapeFields[c] ELSE {})
         \cup (IF c \in DOMAIN npf_ShapeFields THEN npf_ShapeFields[c] ELSE {})

(***************************************************************************)
(* The family resolvers (__new__).  Each either raises or names the class  *)
(* it goes on to call with the same arguments.                             *)
(***************************************************************************)
Raises(e) == [exc |-> e, cls |-> ""]

Calls(c) == [exc |-> "", cls |-> c]

\* The five type -> class dicts are module globals, which any code of the
\* process could rebind or update: registry is what they hold now, Registry
\* what the module statements that build them leave in them.
VARIABLE registry

Registry ==
    [POST_CLASSES |-> POST_CLASSES, FORMAT_CLASSES |-> FORMAT_CLASSES,
     CONTENT_CLASSES |-> CONTENT_CLASSES,
     ATTRIBUTION_CLASSES |-> ATTRIBUTION_CLASSES,
     LAYOUT_CLASSES |-> LAYOUT_CLASSES]

Hashable(v) == v.k \notin {"list", "map"}

InTable(table, v) == v.k = "str" /\ v.s \in DOMAIN table

\* table[kwargs['type']](...)
TableCall(table, kwargs) ==
    IF "type" \notin DOMAIN kwargs THEN Raises("KeyError")
    ELSE IF ~Hashable(kwargs["type"]) THEN Raises("TypeError")
    ELSE IF InTable(table, kwargs["type"]) THEN Calls(table[kwargs["type"].s])
    ELSE Raises("KeyError")

Post_new(kwargs) ==
    IF "blog_name" \in DOMAIN kwargs /\ "blog" \notin DOMAIN kwargs
    THEN Calls("DashboardPost")
    ELSE TableCall(registry.POST_CLASSES, kwargs)

ContentFormat_new(kwargs) ==
    IF "type" \in DOMAIN kwargs
    THEN TableCall(registry.FORMAT_CLASSES, kwargs)
    ELSE Calls("ContentFormat")

ContentBlock_new(kwargs) ==
    IF "type" \notin DOMAIN kwargs THEN Raises("KeyError")
    ELSE IF ~Hashable(kwargs["type"]) THEN Raises("TypeError")
    ELSE IF InTable(registry.CONTENT_CLASSES, kwargs["type"])
    THEN TableCall(registry.CONTENT_CLASSES, kwargs)
    ELSE \* type is a generic mime type
         Calls("ImageBlock")

\* a variant that guesses a shape for a type the table does not have, as
\* ContentBlock.__new__ does
Attribution_new_guessing(kwargs) ==
    IF "type" \in DOMAIN kwargs
       /\ InTable(registry.ATTRIBUTION_CLASSES, kwargs["type"])
    THEN TableCall(registry.ATTRIBUTION_CLASSES, kwargs)
    ELSE Calls("LinkAttribution")

Attribution_new(kwargs) == TableCall(registry.ATTRIBUTION_CLASSES, kwargs)

LayoutBlock_new(kwargs) == TableCall(registry.LAYOUT_CLASSES, kwargs)

Resolver(owner, kwargs) ==
    CASE owner = "Post" -> Post_new(kwargs)
      [] owner = "ContentFormat" -> ContentFormat_new(kwargs)
      [] owner = "ContentBlock" -> ContentBlock_new(kwargs)
      [] owner = "Attribution" -> Attribution_new(kwargs)
      [] owner = "LayoutBlock" -> LayoutBlock_new(kwargs)

Families == {"Post", "ContentFormat", "ContentBlock", "Attribution", "LayoutBlock"}

(***************************************************************************)
(* parse_date: datetime.strptime(tumblr_date, DATE_FORMAT).                *)
(* DATE_FORMAT = '%Y-%m-%d %H:%M:%S %Z' compiles to the regular expression *)
(*   (\d\d\d\d)-(1[0-2]|0[1-9]|[1-9])-(3[01]|[12]\d|0[1-9]|[1-9]| [1-9])\s+  *)
(*   (2[0-3]|[0-1]\d|\d):([0-5]\d|\d):(6[0-1]|[0-5]\d|\d)\s+(utc|gmt)      *)
(* matched case-insensitively against the whole string; the fields then    *)
(* build a naive datetime, which checks the calendar.  The local zone      *)
(* names that %Z also accepts depend on the host and are left out.         *)
(***************************************************************************)
DigitVal ==
    ("0" :> 0) @@ ("1" :> 1) @@ ("2" :> 2) @@ ("3" :> 3) @@ ("4" :> 4) @@
    ("5" :> 5) @@ ("6" :> 6) @@ ("7" :> 7) @@ ("8" :> 8) @@ ("9" :> 9)

Whitespace == {" ", "\t", "\n"}

UpperLetters ==
    << "A", "B", "C", "D", "E", "F", "G", "H", "I", "J", "K", "L", "M",
       "N", "O", "P", "Q", "R", "S", "T", "U", "V", "W", "X", "Y", "Z" >>

LowerLetters ==
    << "a", "b", "c", "d", "e", "f", "g", "h", "i", "j", "k", "l", "m",
       "n", "o", "p", "q", "r", "s", "t", "u", "v", "w", "x", "y", "z" >>

Lower(ch) ==
    IF \E i \in 1..26 : UpperLetters[i] = ch
    THEN LowerLetters[CHOOSE i \in 1..26 : UpperLetters[i] = ch]
    ELSE ch

LowerAll(c) == [i \in 1..Len(c) |-> Lower(c[i])]

ZoneNames == { <<"u", "t", "c">>, <<"g", "m", "t">> }

IsLeap(y) == (y % 4 = 0 /\ y % 100 # 0) \/ y % 400 = 0

DaysIn(y, m) ==
    IF m = 2 THEN (IF IsLeap(y) THEN 29 ELSE 28)
    ELSE IF m \in {4, 6, 9, 11} THEN 30 ELSE 31

DateTime(y, mo, d, h, mi, sec) ==
    [k |-> "datetime", y |-> y, mo |-> mo, d |-> d, h |-> h, mi |-> mi, sec |-> sec]

ValueError == [k |-> "exc", exc |-> "ValueError"]

TypeError == [k |-> "exc", exc |-> "TypeError"]

\* the end of the run of digits that starts at i (i itself if there is none)
RECURSIVE RunEnd(_, _)
RunEnd(c, i) ==
    IF i <= Len(c) /\ c[i] \in DOMAIN DigitVal THEN RunEnd(c, i + 1) ELSE i

\* the end of the run of whitespace that starts at i
RECURSIVE SpaceEnd(_, _)
SpaceEnd(c, i) ==
    IF i <= Len(c) /\ c[i] \in Whitespace THEN SpaceEnd(c, i + 1) ELSE i

\* the number written by the digits c[i..j-1]
RECURSIVE Num(_, _, _)
Num(c, i, j) ==
    IF j <= i THEN 0 ELSE 10 * Num(c, i, j - 1) + DigitVal[c[j - 1]]

\* a one- or two-digit group c[i..j-1] within the ranges its directive allows
Group(c, i, j, lo1, hi1, lo2, hi2) ==
    \/ j - i = 1 /\ Num(c, i, j) >= lo1 /\ Num(c, i, j) <= hi1
    \/ j - i = 2 /\ Num(c, i, j) >= lo2 /\ Num(c, i, j) <= hi2

Is(c, i, ch) == i <= Len(c) /\ c[i] = ch

Strptime(c) ==
    LET mS == 6
        mE == RunEnd(c, mS)
        \* %d also accepts a space followed by one digit 1-9
        dS == IF Is(c, mE + 1, " ") THEN mE + 2 ELSE mE + 1
        dE == RunEnd(c, dS)
        hS == SpaceEnd(c, dE)
        hE == RunEnd(c, hS)
        miS == hE + 1
        miE == RunEnd(c, miS)
        sS == miE + 1
        sE == RunEnd(c, sS)
        zS == SpaceEnd(c, sE)
        matches ==
            /\ RunEnd(c, 1) = 5
            /\ Is(c, 5, "-")
            /\ Group(c, mS, mE, 1, 9, 1, 12)
            /\ Is(c, mE, "-")
            /\ IF dS = mE + 2 THEN Group(c, dS, dE, 1, 9, 1, 0)
                             ELSE Group(c, dS, dE, 1, 9, 1, 31)
            /\ hS > dE
            /\ Group(c, hS, hE, 0, 9, 0, 23)
            /\ Is(c, hE, ":")
            /\ Group(c, miS, miE, 0, 9, 0, 59)
            /\ Is(c, miE, ":")
            /\ Group(c, sS, sE, 0, 9, 0, 61)
            /\ zS > sE
            /\ LowerAll(SubSeq(c, zS, Len(c))) \in ZoneNames
        y == Num(c, 1, 5)
        mo == Num(c, mS, mE)
        d == Num(c, dS, dE)
    IN  IF ~matches THEN ValueError
        ELSE IF y < 1 \/ d > DaysIn(y, mo) \/ Num(c, sS, sE) > 59 THEN ValueError
        ELSE DateTime(y, mo, d, Num(c, hS, hE), Num(c, miS, miE), Num(c, sS, sE))

DATE_FORMAT == "%Y-%m-%d %H:%M:%S %Z"

\* a text of the model that is not spelled out in characters is a word, and
\* no word matches the format
parse_date(tumblr_date) ==
    IF tumblr_date.k = "chars" THEN Strptime(tumblr_date.c)
    ELSE IF tumblr_date.k = "str" THEN ValueError
    ELSE TypeError

(***************************************************************************)
(* The generated __init__(self, <init fields in order>): binds positional  *)
(* and keyword arguments, applies defaults, sets every field on self.      *)
(***************************************************************************)
Min(a, b) == IF a < b THEN a ELSE b

Bind(c, args, kwargs) ==
    LET ps == InitParams(c)
        fs == Fields(c)
        names == {ps[i].name : i \in 1..Len(ps)}
        given(i) == i <= Len(args) \/ ps[i].name \in DOMAIN kwargs
        argOf(i) == IF i <= Len(args) THEN args[i] ELSE kwargs[ps[i].name]
        paramOf(n) == CHOOSE i \in 1..Len(ps) : ps[i].name = n
        fieldOf(n) == fs[CHOOSE i \in 1..Len(fs) : fs[i].name = n]
        tooMany == Len(args) > Len(ps)
        unexpected == \E key \in DOMAIN kwargs : key \notin names
        twice == \E i \in 1..Min(Len(args), Len(ps)) : ps[i].name \in DOMAIN kwargs
        missing == \E i \in 1..Len(ps) : ~given(i) /\ ps[i].kind = "req"
        \* the default is produced by calling the factory
        notCallable == \E i \in 1..Len(ps) : ~given(i) /\ ps[i].kind = "badfactory"
        valueOf(n) ==
            IF fieldOf(n).init /\ given(paramOf(n)) THEN argOf(paramOf(n))
            ELSE fieldOf(n).dv
    IN  IF tooMany \/ unexpected \/ twice \/ missing \/ notCallable
        THEN TypeError
        ELSE Obj(c, [n \in {fs[i].name : i \in 1..Len(fs)} |-> valueOf(n)])

(***************************************************************************)
(* request.py: the response of the transport, json_parse and created.      *)
(* An HTTP response is its body: the JSON value it parses to, or a str     *)
(* when the body is not JSON.                                              *)
(***************************************************************************)
KeyError == [k |-> "exc", exc |-> "KeyError"]

AttributeError == [k |-> "exc", exc |-> "AttributeError"]

\* v[key]
Subscript(v, key) ==
    IF v.k = "exc" THEN v
    ELSE IF ~IsMap(v) THEN TypeError
    ELSE IF key \in DOMAIN v.m THEN v.m[key]
    ELSE KeyError

\* response.json()
response_json(response) == IF response.k = "str" THEN ValueError ELSE response

ServerError ==
    M([meta |-> M([status |-> I(500), msg |-> S("Server Error")]),
       response |-> M([error |-> S("Malformed JSON or HTML was returned.")])])

\* a json_parse that hands over the response whatever the status is
json_parse_unchecked(response) ==
    LET j == response_json(response)
    IN  Subscript(IF j.k = "exc" THEN ServerError ELSE j, "response")

json_parse(response) ==
    LET j == response_json(response)
        data == IF j.k = "exc" THEN ServerError ELSE j
        meta == Subscript(data, "meta")
        status == Subscript(meta, "status")
        msg == Subscript(meta, "msg")
        resp == Subscript(data, "response")
    IN  IF status.k = "exc" THEN status
        ELSE IF status = I(200) THEN resp
        ELSE IF msg.k = "exc" THEN msg
        ELSE IF resp.k = "exc" THEN resp
        ELSE \* TumblrError(status, msg, response): errors keeps its default
             Obj("TumblrError",
                 [status |-> status, msg |-> msg, response |-> resp,
                  errors |-> Null])

\* an ok that goes by whether the response is empty
ok_by_content(response) ==
    Tuple(<< B(IsObj(response) \/ (IsMap(response) /\ response # M(EmptyMap))),
             response >>)

\* ok(response): (not isinstance(response, TumblrError), response)
ok(response) == Tuple(<< B(~IsInstance(response, "TumblrError")), response >>)

\* created(response): (response.status == 201, response)
created(response) ==
    IF IsObj(response) /\ "status" \in DOMAIN response.f
    THEN Tuple(<< B(response.f["status"] = I(201)), response >>)
    ELSE AttributeError

(***************************************************************************)
(* State.                                                                  *)
(*   http    the response the transport handed over                        *)
(*   call    what is done with the parsed response: cls is the return type *)
(*           it is decoded as, or the status helper applied to it          *)
(*   stack   the constructor frames of the call in progress                *)
(*   result  its outcome: none yet, a value, or the exception raised       *)
(*   kept    an earlier call and its outcome, which the caller still holds *)
(*   registry (declared above) the dispatch tables                         *)
(*   api     the send_api_request in progress: where it is (pc), its       *)
(*           arguments as they are now, the calls it has made so far to    *)
(*           validate_params and to the transport (log), whether           *)
(*           validate_params refused the parameters, the exception raised  *)
(***************************************************************************)
VARIABLES api, http, call, stack, result, kept

vars == << registry, api, http, call, stack, result, kept >>

NoHttp == Null

NoCall == [cls |-> "", raw |-> Null]

NoApi ==
    [pc |-> "idle", method |-> Null, url |-> Null, params |-> Null,
     valid_parameters |-> Null, files |-> FALSE, log |-> <<>>,
     rejected |-> FALSE, exc |-> ""]

NoResult == [k |-> "none"]

NoKept == [call |-> NoCall, result |-> NoResult]

Exc(e) == [k |-> "exc", exc |-> e]

IsExc(v) == v.k = "exc"

\* pc: new -> (new_wait ->) init -> post (-> wait_one | wait_each)* -> ret
Frame(cls, args, kwargs) ==
    [cls |-> cls, args |-> args, kw |-> kwargs, pc |-> "new", obj |-> Null,
     pi |-> 1, idx |-> 0, acc |-> <<>>]

Top == stack[Len(stack)]

Running == Len(stack) > 0

Idle == call = NoCall

\* no send_api_request is under way
ApiIdle == api.pc = "idle"

Done == ~Idle /\ ~Running

SetTop(f) == [stack EXCEPT ![Len(stack)] = f]

\* an exception propagates through every frame: nothing catches it
Raise(e) ==
    /\ stack' = <<>>
    /\ result' = Exc(e)

\* calling a class from the frames stk: the name must be bound and the
\* interpreter must have room for one more frame
Enter(stk, cls, args, kwargs) ==
    IF ~ClassDefined(cls) THEN Raise("TypeError")
    ELSE IF Len(stk) >= RecursionLimit THEN Raise("RecursionError")
    ELSE /\ stack' = Append(stk, Frame(cls, args, kwargs))
         /\ UNCHANGED result

(***************************************************************************)
(* Raw mappings the caller decodes: the shapes the API documents, and      *)
(* their defects (a key missing, a key too many, an unknown type, a date   *)
(* that is not in the format).                                             *)
(***************************************************************************)
With(m, key, v) == (key :> v) @@ m

Without(m, key) == [x \in DOMAIN m \ {key} |-> m[x]]

BlogRaw ==
    [name |-> S("b"), updated |-> I(1), title |-> S("t"), description |-> S("d"),
     posts |-> I(1), ask |-> B(FALSE), ask_anon |-> B(FALSE), likes |-> I(0),
     is_blocked_from_primary |-> B(FALSE)]

\* "2020-01-01 00:00:00 UTC"
GoodDate ==
    Chars(<< "2", "0", "2", "0", "-", "0", "1", "-", "0", "1", " ",
             "0", "0", ":", "0", "0", ":", "0", "0", " ", "U", "T", "C" >>)

\* "2020-02-30 00:00:00 GMT": in the format, not in the calendar
NoSuchDay ==
    Chars(<< "2", "0", "2", "0", "-", "0", "2", "-", "3", "0", " ",
             "0", "0", ":", "0", "0", ":", "0", "0", " ", "G", "M", "T" >>)

\* "2020-01-01"
ShortDate == Chars(<< "2", "0", "2", "0", "-", "0", "1", "-", "0", "1" >>)

\* the fields every post carries, with blog_name and without blog
DashRaw(id, type, tags, date) ==
    [id |-> I(id), type |-> S(type), blog_name |-> S("x"), post_url |-> S("u"),
     timestamp |-> I(10), date |-> date, format |-> S("html"),
     reblog_key |-> S("abc"), tags |-> L(tags), total_posts |-> I(1)]

PostRaw(id, type, tags, date) ==
    With(DashRaw(id, type, tags, date), "blog", M(BlogRaw))

SizeRaw == [width |-> I(1), height |-> I(2), url |-> S("u")]

PhotoRaw == [caption |-> S("c"), alt_sizes |-> L(<< M(SizeRaw) >>)]

VerbosePhotoRaw ==
    [caption |-> S("c"), alt_sizes |-> L(<< M(SizeRaw) >>),
     original_size |-> M(SizeRaw), width |-> I(1), height |-> I(2),
     url |-> S("u")]

MediaRaw == [type |-> S("image/png"), url |-> S("u")]

PostTypes == {"photo", "quote", "link", "chat", "audio", "video", "answer"}

PostRefinements ==
    {"DashboardPost", "Submission", "LegacyTextPost", "LegacyPhotoPost",
     "LegacyQuotePost", "LegacyLinkPost", "LegacyChatPost", "LegacyAudioPost",
     "LegacyVideoPost", "LegacyAnswerPost", "PostInfo"}

Tags == { <<>>, << S("a") >> }

Ids == 1..MaxId

Request(cls, m) == [cls |-> cls, raw |-> M(m)]

PostRequests ==
    {Request("Post", PostRaw(1, t, <<>>, GoodDate)) : t \in PostTypes \cup {"text", "zzz"}}
    \cup {Request("Post", DashRaw(1, t, <<>>, GoodDate)) : t \in {"quote", "text"}}
    \cup {Request("Post", PostRaw(id, "quote", tags, GoodDate)) : id \in Ids, tags \in Tags}
    \cup {Request("Post", PostRaw(1, "chat", <<>>, d)) : d \in {ShortDate, NoSuchDay}}
    \cup {Request("Post", With(With(PostRaw(1, "quote", <<>>, GoodDate),
                                   "text", S("hi")), "source", S("src"))),
          Request("Post", With(PostRaw(1, "photo", <<>>, GoodDate),
                              "photos", L(<< M(PhotoRaw) >>))),
          Request("Post", Without(PostRaw(1, "quote", <<>>, GoodDate), "type")),
          Request("Post", Without(PostRaw(1, "quote", <<>>, GoodDate), "post_url")),
          Request("Post", Without(DashRaw(1, "quote", <<>>, GoodDate), "blog_name")),
          Request("PostInfo", [id |-> I(1)]),
          Request("PostInfo", [id |-> I(1), type |-> S("quote")])}
    \cup {Request(c, PostRaw(id, "quote", <<>>, GoodDate)) :
              c \in PostRefinements, id \in Ids}
    \cup {Request(c, DashRaw(1, "quote", <<>>, GoodDate)) : c \in PostRefinements}

ShapeRequests ==
    {Request("BlogInfo", BlogRaw),
     Request("BlogInfo", Without(BlogRaw, "likes")),
     Request("BlogInfo", With(BlogRaw, "url", S("u"))),
     Request("ImageSize", SizeRaw),
     Request("Photo", PhotoRaw),
     Request("Photo", [caption |-> S("c"), alt_sizes |-> Null]),
     Request("VerbosePhoto", VerbosePhotoRaw),
     Request("Posts", [posts |-> L(<<>>)]),
     Request("Posts", [posts |-> L(<< M(PostRaw(1, "quote", <<>>, GoodDate)) >>)]),
     Request("BlogPosts", [posts |-> L(<<>>), blog |-> M(BlogRaw)]),
     Request("BlogPosts", [posts |-> L(<< M(PostRaw(1, "quote", <<>>, GoodDate)) >>),
                           blog |-> M(BlogRaw)]),
     Request("BlogPosts", [posts |-> L(<<>>), blog |-> M(Without(BlogRaw, "name"))]),
     Request("Likes", [liked_posts |-> L(<<>>), liked_count |-> I(0)]),
     Request("Likes", [liked_posts |-> L(<< M(PostRaw(1, "link", <<>>, GoodDate)) >>),
                       liked_count |-> I(1)]),
     Request("Following", [blogs |-> L(<< M(BlogRaw), M(BlogRaw) >>),
                           total_blogs |-> I(2)]),
     Request("Following", [blogs |-> L(<< M(BlogRaw), M(Without(BlogRaw, "name")) >>),
                           total_blogs |-> I(2)]),
     Request("Dashboard", [posts |-> L(<<>>)]),
     Request("Dashboard", [posts |-> L(<< M(DashRaw(1, "quote", <<>>, GoodDate)) >>)])}

FormatRequests ==
    {Request("ContentFormat",
             [type |-> S(t), start |-> I(0), end |-> I(1), url |-> S("u")]) :
        t \in {"link", "content", "zzz"}}
    \cup {Request("ContentFormat",
                  [type |-> S("color"), start |-> I(0), end |-> I(1), hex |-> S("#fff")]),
          Request("ContentFormat",
                  [type |-> S("mention"), start |-> I(0), end |-> I(1),
                   blog |-> M([uuid |-> S("id")])]),
          Request("ContentFormat", [start |-> I(0), end |-> I(1)]),
          Request("LinkFormat",
                  [type |-> S("link"), start |-> I(0), end |-> I(1), url |-> S("u")])}

BlockRequests ==
    {Request("ContentBlock", [type |-> S(t), media |-> L(<< M(MediaRaw) >>)]) :
        t \in {"some-future-mime", "image"}}
    \cup {Request("ContentBlock", With(MediaRaw, "type", S("some-future-mime"))),
          Request("ContentBlock", [type |-> S("text"), text |-> S("hi")]),
          Request("ContentBlock", [type |-> S("link"), url |-> S("u")]),
          Request("ContentBlock", [type |-> S("link"), url |-> S("u"),
                                   poster |-> M(MediaRaw)]),
          Request("ContentBlock", [type |-> S("media"), provider |-> S("p")]),
          Request("ContentBlock", [type |-> S("audio"), provider |-> S("p")]),
          Request("ContentBlock", [type |-> S("video"), provider |-> S("p")]),
          Request("ContentBlock", [media |-> L(<< M(MediaRaw) >>)]),
          Request("ImageBlock", [type |-> S("image"), media |-> L(<< M(MediaRaw) >>)]),
          Request("Media", MediaRaw),
          Request("Media", [url |-> S("u")]),
          Request("NeueObject", [type |-> S("x")]),
          Request("ShortBlogInfo", [uuid |-> S("id")])}

AttributionRequests ==
    {Request("Attribution", [type |-> S(t), url |-> S("u")]) :
        t \in {"link", "app", "zzz"}}
    \cup {Request("Attribution", [url |-> S("u")])}
    \cup {Request("Attribution", [type |-> S("blog"), blog |-> M([uuid |-> S("id")])]),
          Request("Attribution", [type |-> S("post"), url |-> S("u"),
                                  post |-> M([id |-> I(1)]),
                                  blog |-> M([uuid |-> S("id")])])}

LayoutRequests ==
    {Request("LayoutBlock", [type |-> S(t), blocks |-> L(<< I(0) >>)]) :
        t \in {"condensed", "zzz"}}
    \cup {Request("LayoutBlock", [blocks |-> L(<< I(0) >>)])}
    \cup {Request("LayoutBlock", [type |-> S("rows"), rows |-> L(<< L(<< I(0) >>) >>)]),
          Request("LayoutBlock",
                  [type |-> S("ask"), blocks |-> L(<< I(0) >>),
                   attribution |-> M([type |-> S("link"), url |-> S("u")]),
                   blog |-> M([uuid |-> S("id")])])}

BrokenBlogRaw == [name |-> S("n"), avatar |-> M([avatar_url |-> S("a")])]

TextBlockRaw == [type |-> S("text"), text |-> S("hi")]

LinkBlockRaw == [type |-> S("link"), url |-> S("u")]

AskLayoutRaw ==
    [type |-> S("ask"), blocks |-> L(<< I(0) >>),
     attribution |-> M([type |-> S("link"), url |-> S("u")]),
     blog |-> M([uuid |-> S("id")])]

TrailRaw(content, layout) ==
    [content |-> L(content), layout |-> L(layout), broken_blog |-> M(BrokenBlogRaw)]

NeuePostRaw(content, layout) ==
    [id |-> S("1"), tumblelog_uuid |-> S("t"), content |-> L(content),
     layout |-> L(layout)]

TrailRequests ==
    {Request("Trail", TrailRaw(<<>>, <<>>)),
     Request("Trail", TrailRaw(<< M(LinkBlockRaw) >>, << M(AskLayoutRaw) >>)),
     Request("Trail", TrailRaw(<<>>, << M(AskLayoutRaw) >>)),
     Request("Trail", Without(TrailRaw(<< M(TextBlockRaw) >>, <<>>), "broken_blog")),
     Request("Trail", Without(TrailRaw(<< M([media |-> L(<< M(MediaRaw) >>)]) >>, <<>>),
                              "broken_blog")),
     Request("Trail", Without(TrailRaw(<<>>, <<>>), "broken_blog")),
     Request("BrokenBlog", BrokenBlogRaw),
     Request("BrokenBlog", [name |-> S("n"), avatar |-> M(EmptyMap)]),
     Request("Avatar", EmptyMap),
     Request("Display", [blocks |-> L(<< I(0) >>), mode |-> M([type |-> S("x")])]),
     Request("NeuePost", NeuePostRaw(<<>>, <<>>)),
     Request("NeuePost", With(NeuePostRaw(<<>>, <<>>), "trail", L(<<>>))),
     Request("NeuePost", With(NeuePostRaw(<<>>, << M([type |-> S("zzz"),
                                                      blocks |-> L(<< I(0) >>)]) >>),
                              "trail", L(<<>>))),
     Request("NeuePost", With(NeuePostRaw(<<>>, <<>>), "trail",
                              L(<< M(TrailRaw(<<>>, <<>>)) >>)))}

\* defects: an element that does not decode, a required field missing
DefectRequests ==
    {Request("ImageSize", Without(SizeRaw, "url")),
     Request("Photo", [caption |-> S("c"),
                       alt_sizes |-> L(<< M(SizeRaw), M(Without(SizeRaw, "url")) >>)]),
     Request("VerbosePhoto", With(VerbosePhotoRaw, "alt_sizes",
                                  L(<< M(Without(SizeRaw, "url")) >>))),
     Request("BlogInfo", Without(BlogRaw, "name")),
     Request("Following", [blogs |-> L(<< M(Without(BlogRaw, "name")) >>)]),
     Request("Likes", [liked_posts |-> L(<< M(PostRaw(1, "link", <<>>, GoodDate)) >>)])}

\* what the transport hands over: the JSON envelope with the mapping as its
\* response, under several statuses, or a body that is not JSON
Envelope(status, msg, response) ==
    M([meta |-> M([status |-> I(status), msg |-> S(msg)]), response |-> response])

Statuses == { << 200, "OK" >>, << 201, "Created" >>, << 404, "Not Found" >> }

NotJson == S("<html>")

EnvelopeProbes ==
    {Request("BlogInfo", BlogRaw),
     Request("Post", PostRaw(1, "quote", <<>>, GoodDate)),
     Request("Following", [blogs |-> L(<< M(BlogRaw), M(BlogRaw) >>),
                           total_blogs |-> I(2)])}

ResponsesFor(req) ==
    {Envelope(200, "OK", req.raw)}
    \cup (IF req \in EnvelopeProbes
          THEN {Envelope(st[1], st[2], req.raw) : st \in Statuses}
               \cup {NotJson, Envelope(200, "OK", L(<<>>)), M(EmptyMap)}
          ELSE {})

PostResponses ==
    {Envelope(st[1], st[2], M([id |-> I(1)])) : st \in Statuses} \cup {NotJson}

FollowResponses ==
    PostResponses
    \cup {Envelope(200, "OK", M(EmptyMap)), Envelope(404, "Not Found", M(EmptyMap)),
          M(EmptyMap)}

\* calls of send_api_request as the endpoints make them, with parameters the
\* allow-list has and has not, and methods in several spellings
Methods ==
    {Chars(<< "g", "e", "t" >>), Chars(<< "P", "O", "S", "T" >>),
     Chars(<< "P", "o", "s", "t" >>), Chars(<< "p", "u", "t" >>)}

FollowUrl == Chars(<< "/", "u", "s", "e", "r", "/", "f", "o", "l", "l", "o", "w" >>)

ParamCases ==
    {[params |-> Null, valid_parameters |-> Null],
     [params |-> M([url |-> S("b")]), valid_parameters |-> L(<< S("url") >>)],
     [params |-> M([limit |-> I(1), bad |-> I(1)]),
      valid_parameters |-> L(<< S("limit"), S("offset") >>)],
     [params |-> M([data |-> S("f"), caption |-> S("c")]),
      valid_parameters |-> L(<< S("caption") >>)],
     [params |-> M([data |-> S("f"), bad |-> I(1)]),
      valid_parameters |-> L(<< S("caption"), S("data") >>)]}

ApiCalls ==
    {[method |-> m, url |-> FollowUrl, params |-> pc.params,
      valid_parameters |-> pc.valid_parameters, needs_api_key |-> key] :
        m \in Methods, pc \in ParamCases, key \in BOOLEAN}

TypedCalls ==
    {[return_type |-> "Submission", method |-> Chars(<< "g", "e", "t" >>),
      url |-> FollowUrl, params |-> pc.params,
      valid_parameters |-> pc.valid_parameters, needs_api_key |-> key] :
        pc \in ParamCases, key \in BOOLEAN}

Requests ==
    PostRequests \cup ShapeRequests \cup FormatRequests \cup BlockRequests
    \cup AttributionRequests \cup LayoutRequests \cup TrailRequests
    \cup DefectRequests

(***************************************************************************)
(* Iteration in a comprehension: a list yields its elements, a mapping     *)
(* its keys and a str its characters (both strs); anything else is not     *)
(* iterable.                                                               *)
(***************************************************************************)
RECURSIVE KeySeq(_)
KeySeq(keys) ==
    IF keys = {} THEN <<>>
    ELSE LET key == CHOOSE x \in keys : TRUE
         IN  << S(key) >> \o KeySeq(keys \ {key})

Iterable(v) == v.k \in {"list", "map", "chars", "str"}

Iterate(v) ==
    CASE v.k = "list" -> v.l
      [] v.k = "map" -> KeySeq(DOMAIN v.m)
      [] v.k = "chars" -> [i \in 1..Len(v.c) |-> Chars(<< v.c[i] >>)]
      [] v.k = "str" -> IF v.s = "" THEN <<>> ELSE << v >>

(***************************************************************************)
(* Actions.                                                                *)
(***************************************************************************)
Init ==
    /\ registry = Registry
    /\ api = NoApi
    /\ http = NoHttp
    /\ call = NoCall
    /\ stack = <<>>
    /\ result = NoResult
    /\ kept = NoKept

\* a typed endpoint: _wrap(return_type, json_parse(response)), which hands
\* back a TumblrError as it is and calls return_type(**response) otherwise
Decode(return_type, response) ==
    /\ Idle
    /\ ApiIdle
    /\ http' = response
    /\ LET r == json_parse(response)
       IN  /\ call' = [cls |-> return_type, raw |-> r]
           /\ IF IsExc(r) THEN Raise(r.exc)
              ELSE IF IsInstance(r, "TumblrError")
              THEN /\ stack' = <<>>
                   /\ result' = r
              ELSE IF ~IsMap(r) THEN Raise("TypeError")
              ELSE Enter(<<>>, return_type, <<>>, r.m)
    /\ UNCHANGED << registry, api, kept >>

\* a write endpoint: _send_post's created(send_api_request("post", ...))
SendPost(response) ==
    /\ Idle
    /\ ApiIdle
    /\ http' = response
    /\ LET r == json_parse(response)
       IN  /\ call' = [cls |-> "created", raw |-> r]
           /\ stack' = <<>>
           /\ result' = IF IsExc(r) THEN r ELSE created(r)
    /\ UNCHANGED << registry, api, kept >>

\* a status endpoint such as follow: ok(send_api_request("post", ...))
Follow(response) ==
    /\ Idle
    /\ ApiIdle
    /\ http' = response
    /\ LET r == json_parse(response)
       IN  /\ call' = [cls |-> "ok", raw |-> r]
           /\ stack' = <<>>
           /\ result' = IF IsExc(r) THEN r ELSE ok(r)
    /\ UNCHANGED << registry, api, kept >>

(***************************************************************************)
(* send_api_request, statement by statement: the arguments are put in      *)
(* order (defaults, api_key, the data files), validate_params is called,   *)
(* then the transport, request.get or request.post, or ValueError raised.  *)
(* What the transport hands back is followed in Decode, SendPost, Follow.  *)
(***************************************************************************)
\* validate_params(valid_options, params) of helpers.py, for a mapping: the
\* exception it raises, "" when every key is allowed
validate_params(valid_options, params) ==
    IF DOMAIN params.m = {} THEN ""
    ELSE IF ~IsList(valid_options) THEN "TypeError"
    ELSE IF \A key \in DOMAIN params.m :
                \E i \in 1..Len(valid_options.l) : valid_options.l[i] = S(key)
    THEN ""
    ELSE "Exception"

\* what validate_params can do with the arguments
Validations(valid_options, params) ==
    IF IsMap(params) THEN {validate_params(valid_options, params)}
    ELSE {"", "AttributeError"}

\* lines 587-602
ApiStart(method, url, params, valid_parameters, needs_api_key) ==
    /\ Idle
    /\ ApiIdle
    /\ LET valid0 == IF valid_parameters = Null THEN L(<<>>) ELSE valid_parameters
           params0 == IF params = Null THEN M(EmptyMap) ELSE params
           keyed == needs_api_key /\ IsMap(params0) /\ IsList(valid0)
           params1 == IF keyed THEN M(With(params0.m, "api_key", S("k"))) ELSE params0
           valid1 == IF keyed THEN L(Append(valid0.l, S("api_key"))) ELSE valid0
           has_data ==
               \/ IsMap(params1) /\ "data" \in DOMAIN params1.m
               \/ IsList(params1) /\ \E i \in 1..Len(params1.l) : params1.l[i] = S("data")
           started == [NoApi EXCEPT !.method = method, !.url = url,
                                    !.params = params1, !.valid_parameters = valid1]
       IN  IF needs_api_key /\ ~keyed
           THEN api' = [started EXCEPT !.pc = "raised", !.exc = "AttributeError"]
           ELSE IF ~has_data
           THEN api' = [started EXCEPT !.pc = "validate"]
           ELSE IF ~IsMap(params1)
           THEN api' = [started EXCEPT !.pc = "raised", !.exc = "TypeError"]
           ELSE \E opened \in BOOLEAN :
                    api' = IF opened
                           THEN [started EXCEPT
                                    !.pc = "validate", !.files = TRUE,
                                    !.params = M(Without(params1.m, "data"))]
                           ELSE [started EXCEPT !.pc = "raised", !.exc = "OSError"]
    /\ UNCHANGED << registry, http, call, stack, result, kept >>

\* send_typed_request: send_api_request(url, params, valid_parameters,
\* needs_api_key), so that each argument lands one parameter early
SendTypedRequest(return_type, method, url, params, valid_parameters, needs_api_key) ==
    ApiStart(url, params, valid_parameters, B(needs_api_key), FALSE)

\* a send_api_request that goes on to the transport whatever validate_params
\* made of the parameters
ApiValidate_lenient ==
    /\ api.pc = "validate"
    /\ \E e \in Validations(api.valid_parameters, api.params) :
           api' = [api EXCEPT !.log = Append(@, "validate_params"),
                              !.rejected = e # "",
                              !.pc = "dispatch"]
    /\ UNCHANGED << registry, http, call, stack, result, kept >>

\* line 604
ApiValidate ==
    /\ api.pc = "validate"
    /\ \E e \in Validations(api.valid_parameters, api.params) :
           api' = [api EXCEPT !.log = Append(@, "validate_params"),
                              !.rejected = e # "",
                              !.exc = e,
                              !.pc = IF e # "" THEN "raised" ELSE "dispatch"]
    /\ UNCHANGED << registry, http, call, stack, result, kept >>

\* lines 605-610; the transport returns a response or raises
ApiTransport ==
    /\ api.pc = "dispatch"
    /\ LET m == LowerAll(api.method.c)
       IN  IF m \in { <<"g", "e", "t">>, <<"p", "o", "s", "t">> }
           THEN \E failed \in BOOLEAN :
                    api' = [api EXCEPT
                               !.log = Append(@, IF m = <<"g", "e", "t">>
                                                 THEN "request.get"
                                                 ELSE "request.post"),
                               !.exc = IF failed THEN "ConnectionError" ELSE "",
                               !.pc = IF failed THEN "raised" ELSE "returned"]
           ELSE api' = [api EXCEPT !.exc = "ValueError", !.pc = "raised"]
    /\ UNCHANGED << registry, http, call, stack, result, kept >>

\* the caller has the response, or the exception
ApiReturn ==
    /\ api.pc \in {"returned", "raised"}
    /\ api' = NoApi
    /\ UNCHANGED << registry, http, call, stack, result, kept >>

\* object.__new__: no class of the MRO defines __new__
ObjectNew ==
    /\ Running
    /\ Top.pc = "new"
    /\ NewOwner(Top.cls) = "object"
    /\ stack' = SetTop([Top EXCEPT !.obj = Obj(Top.cls, EmptyMap), !.pc = "init"])
    /\ UNCHANGED << registry, api, http, call, result, kept >>

\* a family __new__ that enters in POST_CLASSES a type it did not find there
FamilyNew_learning ==
    /\ Running
    /\ Top.pc = "new"
    /\ NewOwner(Top.cls) \in Families
    /\ LET r == Resolver(NewOwner(Top.cls), Top.kw)
       IN  IF r.exc # "" THEN Raise(r.exc)
           ELSE Enter(SetTop([Top EXCEPT !.pc = "new_wait"]), r.cls, Top.args, Top.kw)
    /\ registry' =
            IF /\ NewOwner(Top.cls) = "Post"
               /\ "type" \in DOMAIN Top.kw
               /\ Top.kw["type"].k = "str"
               /\ ~InTable(registry.POST_CLASSES, Top.kw["type"])
            THEN [registry EXCEPT
                     !.POST_CLASSES = (Top.kw["type"].s :> "LegacyTextPost") @@ @]
            ELSE registry
    /\ UNCHANGED << api, http, call, kept >>

\* an inherited family __new__: it raises, or calls the class it selects
\* and returns what that call returns
FamilyNew ==
    /\ Running
    /\ Top.pc = "new"
    /\ NewOwner(Top.cls) \in Families
    /\ LET r == Resolver(NewOwner(Top.cls), Top.kw)
       IN  IF r.exc # "" THEN Raise(r.exc)
           ELSE Enter(SetTop([Top EXCEPT !.pc = "new_wait"]), r.cls, Top.args, Top.kw)
    /\ UNCHANGED << registry, api, http, call, kept >>

\* type.__call__ runs __init__ of the object __new__ returned
InitFields ==
    /\ Running
    /\ Top.pc = "init"
    /\ LET b == Bind(Top.obj.cls, Top.args, Top.kw)
       IN  IF IsExc(b) THEN Raise(b.exc)
           ELSE /\ stack' = SetTop([Top EXCEPT
                                       !.obj = b,
                                       !.pc = IF PostInitOwner(b.cls) = "object"
                                              THEN "ret" ELSE "post",
                                       !.pi = 1, !.idx = 0, !.acc = <<>>])
                /\ UNCHANGED result
    /\ UNCHANGED << registry, api, http, call, kept >>

\* the next statement of __post_init__
PostInit ==
    /\ Running
    /\ Top.pc = "post"
    /\ LET body == PostInitBody(Top.obj.cls)
       IN  IF Top.pi > Len(body)
           THEN /\ stack' = SetTop([Top EXCEPT !.pc = "ret"])
                /\ UNCHANGED result
           ELSE
           LET st == body[Top.pi]
               v == Top.obj.f[st.field]
           IN  CASE st.op = "date" ->
                     LET d == parse_date(v)
                     IN  IF IsExc(d) THEN Raise(d.exc)
                         ELSE /\ stack' = SetTop([Top EXCEPT !.obj.f[st.field] = d,
                                                              !.pi = @ + 1])
                              /\ UNCHANGED result
                 [] st.op = "one" ->
                     IF ~IsMap(v) THEN Raise("TypeError")
                     ELSE Enter(SetTop([Top EXCEPT !.pc = "wait_one"]),
                                st.cls, <<>>, v.m)
                 [] st.op = "pos" ->
                     Enter(SetTop([Top EXCEPT !.pc = "wait_one"]),
                           st.cls, << v >>, EmptyMap)
                 [] st.op = "each" ->
                     LET it == Iterate(v)
                     IN  IF ~Iterable(v) THEN Raise("TypeError")
                         ELSE IF Top.idx >= Len(it)
                         THEN /\ stack' = SetTop([Top EXCEPT
                                                     !.obj.f[st.field] = L(Top.acc),
                                                     !.pi = @ + 1,
                                                     !.idx = 0, !.acc = <<>>])
                              /\ UNCHANGED result
                         ELSE IF ~IsMap(it[Top.idx + 1]) THEN Raise("TypeError")
                         ELSE Enter(SetTop([Top EXCEPT !.pc = "wait_each"]),
                                    st.cls, <<>>, it[Top.idx + 1].m)
    /\ UNCHANGED << registry, api, http, call, kept >>

\* the call returns its object to the frame that made it
Return ==
    /\ Running
    /\ Top.pc = "ret"
    /\ LET v == Top.obj
           rest == SubSeq(stack, 1, Len(stack) - 1)
       IN  IF Len(rest) = 0
           THEN /\ stack' = <<>>
                /\ result' = v
           ELSE
           LET p == rest[Len(rest)]
               st == PostInitBody(p.obj.cls)[p.pi]
               q == CASE p.pc = "new_wait" ->
                        \* type.__call__ of the family class: __init__ runs
                        \* again if the object is an instance of that class
                        [p EXCEPT !.obj = v,
                                  !.pc = IF IsInstance(v, p.cls) THEN "init" ELSE "ret"]
                      [] p.pc = "wait_one" ->
                        [p EXCEPT !.obj.f[st.field] = v, !.pi = @ + 1, !.pc = "post"]
                      [] p.pc = "wait_each" ->
                        [p EXCEPT !.acc = Append(@, v), !.idx = @ + 1, !.pc = "post"]
           IN  /\ stack' = [rest EXCEPT ![Len(rest)] = q]
               /\ UNCHANGED result
    /\ UNCHANGED << registry, api, http, call, kept >>

\* the caller goes on to its next call, holding on to this outcome or not
Finish(keep) ==
    /\ Done
    /\ kept' = IF keep THEN [call |-> call, result |-> result] ELSE kept
    /\ http' = NoHttp
    /\ call' = NoCall
    /\ result' = NoResult
    /\ UNCHANGED << registry, api, stack >>

Next ==
    \/ \E req \in Requests : \E response \in ResponsesFor(req) :
            Decode(req.cls, response)
    \/ \E response \in PostResponses : SendPost(response)
    \/ \E response \in FollowResponses : Follow(response)
    \/ \E c \in ApiCalls :
            ApiStart(c.method, c.url, c.params, c.valid_parameters, c.needs_api_key)
    \/ \E c \in TypedCalls :
            SendTypedRequest(c.return_type, c.method, c.url, c.params,
                             c.valid_parameters, c.needs_api_key)
    \/ ApiValidate
    \/ ApiTransport
    \/ ApiReturn
    \/ ObjectNew
    \/ FamilyNew
    \/ InitFields
    \/ PostInit
    \/ Return
    \/ \E keep \in BOOLEAN : Finish(keep)

Spec == Init /\ [][Next]_vars

(***************************************************************************)
(* Equality and hashing of decoded objects.                                *)
(* @dataclass(eq=True), the default, writes an __eq__ that compares all    *)
(* fields of two objects of one class into every decorated class whose     *)
(* body has none, and then sets __hash__ to None unless the body has one.  *)
(* Post.__eq__ and Post.__hash__ use the id alone.                         *)
(***************************************************************************)
GeneratesEq(c) == ClassTable[c].dataclass /\ ClassTable[c].eq /\ ~ClassTable[c].own_eq

\* the nearest class of the MRO that has an __eq__ of its own
RECURSIVE EqOwner(_)
EqOwner(c) ==
    IF c = "object" THEN "object"
    ELSE IF ClassTable[c].own_eq \/ GeneratesEq(c) THEN c
    ELSE EqOwner(ClassTable[c].base)

\* self.__eq__(other): "True", "False" or "NotImplemented"
EqMethod(self, other) ==
    LET o == EqOwner(self.cls)
    IN  IF o = "object" THEN "NotImplemented"
        ELSE IF ClassTable[o].own_eq
        THEN \* Post.__eq__: return self.id == other.id
             IF self.f["id"] = other.f["id"] THEN "True" ELSE "False"
        ELSE \* generated: if other.__class__ is self.__class__
             IF other.cls = self.cls
             THEN (IF self.f = other.f THEN "True" ELSE "False")
             ELSE "NotImplemented"

\* a == b on two distinct objects: a.__eq__(b), then the reflected
\* b.__eq__(a), then identity
PyEq(a, b) ==
    IF EqMethod(a, b) # "NotImplemented" THEN EqMethod(a, b) = "True"
    ELSE IF EqMethod(b, a) # "NotImplemented" THEN EqMethod(b, a) = "True"
    ELSE FALSE

\* the nearest class of the MRO that sets __hash__: to None where the
\* decorator generated __eq__ and the body has no __hash__
RECURSIVE HashOwner(_)
HashOwner(c) ==
    IF c = "object" THEN "object"
    ELSE IF ClassTable[c].own_hash \/ GeneratesEq(c) THEN c
    ELSE HashOwner(ClassTable[c].base)

\* hash(a): Post.__hash__ is hash(self.id); a class whose __hash__ is None
\* is unhashable; object.__hash__ is the identity
PyHash(a) ==
    LET o == HashOwner(a.cls)
    IN  IF o = "object" THEN [k |-> "hash", of |-> a]
        ELSE IF ClassTable[o].own_hash THEN [k |-> "hash", of |-> a.f["id"]]
        ELSE TypeError

(***************************************************************************)
(* Vocabulary of the properties.                                           *)
(***************************************************************************)
Raw == IF IsMap(call.raw) THEN call.raw.m ELSE EmptyMap

TypeOf(m) == IF "type" \in DOMAIN m /\ m["type"].k = "str" THEN m["type"].s ELSE ""

RequiredNames(c) ==
    {InitParams(c)[i].name : i \in {j \in 1..Len(InitParams(c)) : InitParams(c)[j].kind = "req"}}

\* the mapping has every field the shape requires
Complete(m, c) == RequiredNames(c) \subseteq DOMAIN m

WellDated(m) == "date" \in DOMAIN m /\ ~IsExc(parse_date(m["date"]))

Returned(c) == IsObj(result) /\ result.cls = c

SetMax(ns) == IF ns = {} THEN 0 ELSE CHOOSE n \in ns : \A x \in ns : x <= n

\* how deep mappings nest in a raw value
RECURSIVE MapDepth(_)
MapDepth(v) ==
    CASE v.k = "map" -> 1 + SetMax({MapDepth(v.m[key]) : key \in DOMAIN v.m})
      [] v.k = "list" -> SetMax({MapDepth(v.l[i]) : i \in 1..Len(v.l)})
      [] OTHER -> 0

\* frame i has run the __new__ of its family
Resolved(i) == NewOwner(stack[i].cls) \in Families /\ stack[i].pc = "new_wait"

(***************************************************************************)
(* C1  Post discriminator completeness: decoding as Post a mapping whose   *)
(* type is one of photo, quote, link, chat, audio, video, answer, with     *)
(* every required Post field, blog_name and blog present, yields a value   *)
(* of the corresponding Legacy*Post shape.                                 *)
(* Fails: the decode ends in RecursionError.                                *)
(***************************************************************************)
LegacyShapeOf ==
    [photo |-> "LegacyPhotoPost", quote |-> "LegacyQuotePost",
     link |-> "LegacyLinkPost", chat |-> "LegacyChatPost",
     audio |-> "LegacyAudioPost", video |-> "LegacyVideoPost",
     answer |-> "LegacyAnswerPost"]

C1_PostDiscriminatorComplete ==
    ( /\ Done
      /\ call.cls = "Post"
      /\ TypeOf(Raw) \in DOMAIN LegacyShapeOf
      /\ Complete(Raw, "Post")
      /\ {"blog_name", "blog"} \subseteq DOMAIN Raw
      /\ WellDated(Raw) )
    => Returned(LegacyShapeOf[TypeOf(Raw)])

(***************************************************************************)
(* C2  Constructor nesting is bounded by the nesting of the raw mapping:   *)
(* once a family resolver has picked the concrete class for a mapping, the *)
(* construction of that class does not run the family's resolver again on  *)
(* the same mapping, so the frames never outnumber two per mapping level.  *)
(* Fails: every refinement inherits its family's __new__.                  *)
(***************************************************************************)
C2_NoResolverReentry ==
    /\ \A i, j \in 1..Len(stack) :
          ( /\ i < j
            /\ Resolved(i)
            /\ Resolved(j)
            /\ NewOwner(stack[i].cls) = NewOwner(stack[j].cls) )
          => stack[i].kw # stack[j].kw
    /\ Running => Len(stack) <= 2 * MapDepth(call.raw)

(***************************************************************************)
(* C3  DashboardPost structural rule: decoding as Post a mapping that has  *)
(* blog_name and has no blog yields a DashboardPost, whatever its type.    *)
(* Fails: DashboardPost inherits Post.__new__, which selects DashboardPost *)
(* again.                                                                  *)
(***************************************************************************)
C3_DashboardPostRule ==
    ( /\ Done
      /\ call.cls = "Post"
      /\ "blog_name" \in DOMAIN Raw
      /\ "blog" \notin DOMAIN Raw
      /\ Complete(Raw, "DashboardPost")
      /\ WellDated(Raw) )
    => Returned("DashboardPost")

(***************************************************************************)
(* C4  ContentFormat discriminator completeness: with start, end and the   *)
(* variant's required fields present, type link decodes to LinkFormat,     *)
(* mention to MentionFormat and color to ColorFormat.                      *)
(* Fails: FORMAT_CLASSES has no entry for mention, and link and color      *)
(* recurse.                                                                *)
(***************************************************************************)
FormatShapeOf ==
    [link |-> "LinkFormat", mention |-> "MentionFormat", color |-> "ColorFormat"]

C4_FormatDiscriminatorComplete ==
    ( /\ Done
      /\ call.cls = "ContentFormat"
      /\ TypeOf(Raw) \in DOMAIN FormatShapeOf
      /\ Complete(Raw, FormatShapeOf[TypeOf(Raw)]) )
    => Returned(FormatShapeOf[TypeOf(Raw)])

IsRaw(v) == IsMap(v) \/ (IsList(v) /\ \E i \in 1..Len(v.l) : IsMap(v.l[i]))

RECURSIVE NoRawSurvives(_)
NoRawSurvives(v) ==
    CASE v.k = "obj" ->
            /\ \A n \in ShapeFieldsOf(v.cls) \cap DOMAIN v.f : ~IsRaw(v.f[n])
            /\ \A n \in DOMAIN v.f : NoRawSurvives(v.f[n])
      [] v.k = "list" -> \A i \in 1..Len(v.l) : NoRawSurvives(v.l[i])
      [] OTHER -> TRUE

C6_NoRawMappingSurvives == (Done /\ IsObj(result)) => NoRawSurvives(result)

(***************************************************************************)
(* C7  Post identity: two mappings decoded as a Post refinement give two   *)
(* values that are equal, with equal hashes, when their ids are equal,     *)
(* whatever their other fields, and unequal when their ids differ.         *)
(* Fails: neither decode returns a value (C2); and every refinement but    *)
(* PostInfo is decorated with eq=True, which gives it a field-by-field     *)
(* __eq__ and no __hash__.                                                 *)
(***************************************************************************)
IsPostDecode(c) ==
    /\ c.cls \in PostRefinements \cup {"Post"}
    /\ IsMap(c.raw)
    /\ Complete(c.raw.m, c.cls)
    /\ c.cls = "Post" => TypeOf(c.raw.m) \in DOMAIN LegacyShapeOf
    /\ "date" \in DOMAIN c.raw.m => WellDated(c.raw.m)

SamePost(a, b) ==
    IF a.f["id"] = b.f["id"]
    THEN PyEq(a, b) /\ ~IsExc(PyHash(a)) /\ PyHash(a) = PyHash(b)
    ELSE ~PyEq(a, b)

C8_PostDateParsed ==
    ( /\ Done
      /\ call.cls \in PostRefinements \cup {"Post"}
      /\ Complete(Raw, call.cls)
      /\ "date" \in DOMAIN Raw )
    => IF WellDated(Raw)
       THEN IsObj(result) => result.f["date"] = parse_date(Raw["date"])
       ELSE result = ValueError

(***************************************************************************)
(* C9  ContentBlock fallback: a ContentBlock mapping whose type is none of *)
(* text, link, media, audio, video always decodes to an ImageBlock and     *)
(* never to an error.                                                      *)
(* Fails: ImageBlock inherits ContentBlock.__new__, which falls back to    *)
(* ImageBlock again.                                                       *)
(***************************************************************************)
BlockShapeOf ==
    [text |-> "TextBlock", link |-> "LinkBlock", media |-> "MediaBlock",
     audio |-> "AudioBlock", video |-> "VideoBlock"]

C9_ContentBlockFallback ==
    ( /\ Done
      /\ call.cls = "ContentBlock"
      /\ "type" \in DOMAIN Raw
      /\ TypeOf(Raw) \notin DOMAIN BlockShapeOf )
    => Returned("ImageBlock")

(***************************************************************************)
(* C10  ContentBlock discriminator completeness: with the variant's        *)
(* required fields present, type text decodes to TextBlock, link to        *)
(* LinkBlock, media to MediaBlock, audio to AudioBlock and video to        *)
(* VideoBlock.                                                             *)
(* Fails: each of the five inherits ContentBlock.__new__.                  *)
(***************************************************************************)
C10_BlockDiscriminatorComplete ==
    ( /\ Done
      /\ call.cls = "ContentBlock"
      /\ TypeOf(Raw) \in DOMAIN BlockShapeOf
      /\ Complete(Raw, BlockShapeOf[TypeOf(Raw)]) )
    => Returned(BlockShapeOf[TypeOf(Raw)])

(***************************************************************************)
(* C11  No-fallback strictness: decoding as Attribution a mapping whose    *)
(* type is not link, blog, app or post, or as LayoutBlock a mapping whose  *)
(* type is not rows, condensed or ask, ends in the unknown-variant error   *)
(* (the KeyError of the table lookup) and never in a value.                *)
(***************************************************************************)
StrictTableOf ==
    [Attribution |-> ATTRIBUTION_CLASSES, LayoutBlock |-> LAYOUT_CLASSES]

Unmapped(c) ==
    /\ c.cls \in DOMAIN StrictTableOf
    /\ IsMap(c.raw)
    /\ "type" \in DOMAIN c.raw.m =>
          /\ c.raw.m["type"].k = "str"
          /\ c.raw.m["type"].s \notin DOMAIN StrictTableOf[c.cls]

C11_NoFallbackStrict == (Done /\ Unmapped(call)) => result = Exc("KeyError")

C11_Witness ==
    /\ Done
    /\ Unmapped(call)
    /\ call.cls = "LayoutBlock"
    /\ TypeOf(Raw) = "zzz"
    /\ result = Exc("KeyError")

(***************************************************************************)
(* C12  Attribution and LayoutBlock discriminator completeness: with the   *)
(* variant's required fields present, an Attribution mapping of type link, *)
(* blog, app, post decodes to LinkAttribution, BlogAttribution,            *)
(* AppAttribution, PostAttribution, and a LayoutBlock mapping of type      *)
(* rows, condensed, ask to RowsLayout, CondensedLayout, AskLayout.         *)
(* Fails: each of the seven inherits its family's __new__.                 *)
(***************************************************************************)
Mapped(c) ==
    /\ c.cls \in DOMAIN StrictTableOf
    /\ IsMap(c.raw)
    /\ TypeOf(c.raw.m) \in DOMAIN StrictTableOf[c.cls]
    /\ RequiredNames(StrictTableOf[c.cls][TypeOf(c.raw.m)]) \subseteq DOMAIN c.raw.m

C12_StrictDiscriminatorComplete ==
    (Done /\ Mapped(call)) => Returned(StrictTableOf[call.cls][TypeOf(Raw)])

(***************************************************************************)
(* C13  Absent-field handling: a mapping that has every required field and *)
(* omits fields declared with a default decodes, and each omitted field of *)
(* the decoded value equals its declared default; a mapping that omits a   *)
(* required field ends in the missing-field error (the TypeError of the    *)
(* generated __init__).                                                    *)
(* Fails: __post_init__ decodes a field that was left at its default None. *)
(***************************************************************************)
\* mappings that are sound and leave out defaulted fields only
OmitsDefaulted ==
    {Request("Media", MediaRaw),
     Request("ContentBlock", LinkBlockRaw),
     Request("ContentBlock", [type |-> S("image"), media |-> L(<< M(MediaRaw) >>)]),
     Request("ContentBlock", [type |-> S("media"), provider |-> S("p")]),
     Request("NeuePost", NeuePostRaw(<<>>, <<>>)),
     Request("Trail", TrailRaw(<<>>, <<>>))}
    \cup {Request(c, DashRaw(1, "quote", <<>>, GoodDate)) : c \in PostRefinements}

\* mappings that are sound but for one required field left out
OmitsRequired ==
    {Request("BlogInfo", Without(BlogRaw, "likes")),
     Request("ImageSize", Without(SizeRaw, "url")),
     Request("Trail", Without(TrailRaw(<<>>, <<>>), "broken_blog")),
     Request("Post", Without(PostRaw(1, "quote", <<>>, GoodDate), "post_url"))}

DefaultOf(c, n) ==
    LET fs == Fields(c)
    IN  fs[CHOOSE i \in 1..Len(fs) : fs[i].name = n].dv

DefaultsApplied(v, m) ==
    /\ IsObj(v)
    /\ \A n \in DOMAIN v.f \ DOMAIN m : v.f[n] = DefaultOf(v.cls, n)

C13_AbsentFieldHandling ==
    /\ (Done /\ call \in OmitsDefaulted) => DefaultsApplied(result, Raw)
    /\ (Done /\ call \in OmitsRequired) => result = TypeError

(***************************************************************************)
(* C14  Envelope short-circuit: when the status of the envelope is 200,    *)
(* the response member of its body is what the return type is called       *)
(* with; when it is anything else nothing is decoded and the outcome is a  *)
(* TumblrError carrying the status, the msg and the response.              *)
(***************************************************************************)
IsEnvelope(h) ==
    /\ IsMap(h)
    /\ {"meta", "response"} \subseteq DOMAIN h.m
    /\ IsMap(h.m["meta"])
    /\ {"status", "msg"} \subseteq DOMAIN h.m["meta"].m

StatusOf(h) == h.m["meta"].m["status"].i

Typed == ~Idle /\ call.cls \in Classes /\ IsEnvelope(http)

C14_EnvelopeShortCircuit ==
    Typed =>
        IF StatusOf(http) = 200
        THEN /\ call.raw = http.m["response"]
             /\ Running =>
                    /\ stack[1].cls = call.cls
                    /\ stack[1].args = <<>>
                    /\ stack[1].kw = http.m["response"].m
        ELSE /\ ~Running
             /\ IsInstance(result, "TumblrError")
             /\ result.f["status"] = http.m["meta"].m["status"]
             /\ result.f["msg"] = http.m["meta"].m["msg"]
             /\ result.f["response"] = http.m["response"]

C14_Witness ==
    /\ Typed
    /\ StatusOf(http) = 404
    /\ call.cls = "BlogInfo"
    /\ IsInstance(result, "TumblrError")
    /\ result.f["status"] = I(404)

(***************************************************************************)
(* C15  created: for every envelope the transport can hand over, of any    *)
(* status, created gives a boolean with the response, true exactly when    *)
(* the status is 201, and does not fail.                                   *)
(* Fails: at status 200 json_parse hands over the response dict, which has *)
(* no attribute status.                                                    *)
(***************************************************************************)
C15_CreatedIffStatus201 ==
    (Done /\ call.cls = "created" /\ IsEnvelope(http)) =>
        /\ result.k = "tuple"
        /\ result.t[1] = B(StatusOf(http) = 201)

(***************************************************************************)
(* C16  No partial object: when a mapping nested in a raw mapping, in a    *)
(* field declared to hold a shape c or a sequence of c, does not decode    *)
(* as c, the decode of the enclosing mapping ends in an error; it never    *)
(* returns a value of the enclosing shape.                                 *)
(* Fails: VerbosePhoto.__post_init__ and BlogPosts.__post_init__ replace   *)
(* the __post_init__ of their base (C6), so the elements of alt_sizes and  *)
(* posts are never decoded and their failures never seen.                  *)
(***************************************************************************)
\* the class a __post_init__ of the MRO decodes field n with
RECURSIVE DeclaredShape(_, _)
DeclaredShape(c, n) ==
    IF c = "object" THEN ""
    ELSE LET body == IF ClassTable[c].own_post_init THEN ClassTable[c].post_init
                     ELSE <<>>
             hits == {i \in 1..Len(body) : body[i].field = n /\ body[i].op # "date"}
         IN  IF hits # {} THEN body[CHOOSE i \in hits : TRUE].cls
             ELSE DeclaredShape(ClassTable[c].base, n)

\* v is the mapping, or a list with the mapping in it
Holds(v, m) == v = m \/ (IsList(v) /\ \E i \in 1..Len(v.l) : v.l[i] = m)

\* the decode kept from before failed, and the mapping it was given sits in
\* field n of the mapping decoded now, declared with the same shape
NestsKeptFailure(n) ==
    /\ kept # NoKept
    /\ IsExc(kept.result)
    /\ IsMap(kept.call.raw)
    /\ IsMap(call.raw)
    /\ n \in DOMAIN Raw
    /\ Holds(Raw[n], kept.call.raw)
    /\ call.cls \in DOMAIN ClassTable
    /\ DeclaredShape(call.cls, n) = kept.call.cls

C16_NoPartialObject ==
    (Done /\ \E n \in DOMAIN Raw : NestsKeptFailure(n)) => IsExc(result)

(***************************************************************************)
(* C17  The text post: decoding as Post a mapping whose type is text,      *)
(* with blog, blog_name and every required Post field present, yields a    *)
(* LegacyTextPost, as the other seven types yield their shapes; text is    *)
(* not an unknown variant.                                                 *)
(* Fails: POST_CLASSES has no entry for text, so the lookup raises         *)
(* KeyError.                                                               *)
(***************************************************************************)
IsTextPost ==
    /\ call.cls = "Post"
    /\ TypeOf(Raw) = "text"
    /\ Complete(Raw, "Post")
    /\ {"blog", "blog_name"} \subseteq DOMAIN Raw
    /\ WellDated(Raw)

C17_TextPostResolves == (Done /\ IsTextPost) => Returned("LegacyTextPost")

(***************************************************************************)
(* C18  Nested polymorphic lists: decoding a Trail whose content holds     *)
(* one mapping of type link and whose layout holds one mapping of type     *)
(* ask yields a Trail whose content is a list of one LinkBlock and whose   *)
(* layout is a list of one AskLayout, the blog of that AskLayout being a   *)
(* ShortBlogInfo decoded from its mapping.                                 *)
(* Fails: the decode of the content element never returns (C2): LinkBlock  *)
(* inherits ContentBlock.__new__; the decode ends in RecursionError.       *)
(***************************************************************************)
\* v is a list of one object of class c
IsListOfOne(v, c) == IsList(v) /\ Len(v.l) = 1 /\ IsInstance(v.l[1], c)

IsLinkAskTrail ==
    /\ call.cls = "Trail"
    /\ {"content", "layout"} \subseteq DOMAIN Raw
    /\ IsList(Raw["content"]) /\ Len(Raw["content"].l) = 1
    /\ IsMap(Raw["content"].l[1]) /\ TypeOf(Raw["content"].l[1].m) = "link"
    /\ IsList(Raw["layout"]) /\ Len(Raw["layout"].l) = 1
    /\ IsMap(Raw["layout"].l[1]) /\ TypeOf(Raw["layout"].l[1].m) = "ask"

C18_TrailNestedLists ==
    (Done /\ IsLinkAskTrail) =>
        /\ Returned("Trail")
        /\ IsListOfOne(result.f["content"], "LinkBlock")
        /\ IsListOfOne(result.f["layout"], "AskLayout")
        /\ IsInstance(result.f["layout"].l[1].f["blog"], "ShortBlogInfo")

(***************************************************************************)
(* C19  Sequence decoding: in a decode that returns, every field declared  *)
(* as a sequence of a shape is a list as long as the raw list, with a      *)
(* decoded value of that shape in place of each raw element; and when an   *)
(* element does not decode, the whole decode ends in an error.             *)
(* Fails: VerbosePhoto and BlogPosts return with alt_sizes and posts       *)
(* still the raw lists (C6).                                               *)
(***************************************************************************)
\* the fields some __post_init__ of the MRO decodes element by element
RECURSIVE SequenceFields(_)
SequenceFields(c) ==
    IF c = "object" THEN {}
    ELSE LET body == IF ClassTable[c].own_post_init THEN ClassTable[c].post_init
                     ELSE <<>>
         IN  SequenceFields(ClassTable[c].base)
             \cup {body[i].field : i \in {j \in 1..Len(body) : body[j].op = "each"}}

ElementsDecoded(v, raw, c) ==
    /\ IsList(v)
    /\ Len(v.l) = Len(raw.l)
    /\ \A i \in 1..Len(v.l) : IsInstance(v.l[i], c)

C19_SequenceDecoding ==
    Done =>
        /\ IsObj(result) /\ IsMap(call.raw) =>
              \A n \in SequenceFields(result.cls) \cap DOMAIN Raw :
                  IsList(Raw[n]) =>
                      ElementsDecoded(result.f[n], Raw[n], DeclaredShape(result.cls, n))
        /\ (\E n \in DOMAIN Raw :
                /\ NestsKeptFailure(n)
                /\ n \in SequenceFields(call.cls)
                /\ IsList(Raw[n])) => IsExc(result)

(***************************************************************************)
(* C20  First-failure ordering: when the first element of the first        *)
(* declared field of a mapping does not decode and a required field        *)
(* declared later is missing, the decode reports the error of that         *)
(* element, the first met walking the fields depth first in declaration    *)
(* order.                                                                  *)
(* Fails: __init__ binds every field before __post_init__ decodes any, so  *)
(* the missing field is reported (TypeError), not the element's error.     *)
(***************************************************************************)
FirstField(c) == InitParams(c)[1].name

FirstOf(v) == IF IsList(v) /\ Len(v.l) > 0 THEN v.l[1] ELSE v

\* the decode kept from before failed on the mapping that a depth-first
\* walk of the mapping decoded now meets first
KeptFailureFirst ==
    /\ call.cls \in DOMAIN ClassTable
    /\ Len(InitParams(call.cls)) > 0
    /\ NestsKeptFailure(FirstField(call.cls))
    /\ FirstOf(Raw[FirstField(call.cls)]) = kept.call.raw

C20_FirstFailureOrdering ==
    (Done /\ KeptFailureFirst /\ ~Complete(Raw, call.cls)) => result = kept.result

(***************************************************************************)
(* C23  ok: for every response json_parse produces, ok gives a pair whose  *)
(* first component is true exactly when the status of the envelope was     *)
(* 200, a body that is not JSON counting as status 500, and whose second   *)
(* component is that response.                                             *)
(***************************************************************************)
\* the envelope json_parse goes by
EnvelopeOf(h) == IF IsExc(response_json(h)) THEN ServerError ELSE h

OkApplied ==
    /\ Done
    /\ call.cls = "ok"
    /\ IsEnvelope(EnvelopeOf(http))

C23_OkIffStatus200 ==
    OkApplied =>
        /\ result.k = "tuple"
        /\ result.t[1] = B(StatusOf(EnvelopeOf(http)) = 200)
        /\ result.t[2] = call.raw

C23_Witness ==
    /\ OkApplied
    /\ IsEnvelope(http)
    /\ StatusOf(http) = 200
    /\ http.m["response"] = M(EmptyMap)
    /\ result = Tuple(<< B(TRUE), M(EmptyMap) >>)

(***************************************************************************)
(* C22  Decoding has no side effects: whatever decodes have run, the five  *)
(* dispatch tables hold what they held at the start; the mapping handed    *)
(* to a decode is, all through the call and after it, the mapping that     *)
(* was parsed from the response; and a mapping decoded again as the same   *)
(* shape gives the outcome it gave before.                                 *)
(***************************************************************************)
TablesUnchanged == registry = Registry

RawUnchanged ==
    (~Idle /\ call.cls \in Classes) =>
        /\ call.raw = json_parse(http)
        /\ (Running /\ IsMap(call.raw)) => stack[1].kw = call.raw.m

\* the decode that has ended is the decode kept from before, made again
DecodedAgain == Done /\ call.cls \in Classes /\ kept.call = call

C22_DecodeNoSideEffects ==
    /\ TablesUnchanged
    /\ RawUnchanged
    /\ DecodedAgain => result = kept.result

C22_Witness ==
    /\ DecodedAgain
    /\ call.cls = "Post"
    /\ TypeOf(Raw) = "zzz"
    /\ result = Exc("KeyError")
    /\ kept.result = result
    /\ registry = Registry

(***************************************************************************)
(* C21  Parameter validation precedes transport: in a send_api_request,    *)
(* every call of the transport, request.get or request.post, comes after   *)
(* the call of validate_params; and when validate_params refused the       *)
(* parameters, or the method is neither get nor post whatever its case,    *)
(* the transport is not called at all.                                     *)
(***************************************************************************)
TransportCalls ==
    {i \in 1..Len(api.log) : api.log[i] \in {"request.get", "request.post"}}

IsGetOrPost(method) ==
    LowerAll(method.c) \in { <<"g", "e", "t">>, <<"p", "o", "s", "t">> }

C21_ValidationPrecedesTransport ==
    ~ApiIdle =>
        /\ \A i \in TransportCalls :
               \E j \in 1..(i - 1) : api.log[j] = "validate_params"
        /\ (api.rejected \/ ~IsGetOrPost(api.method)) => TransportCalls = {}

C21_Witness ==
    /\ api.pc = "raised"
    /\ api.rejected
    /\ IsGetOrPost(api.method)
    /\ api.params = M([limit |-> I(1), bad |-> I(1)])
    /\ api.log = << "validate_params" >>

====
